---- MODULE Spec2Model ----
(***************************************************************************)
(* A model of the blobwars game engine: the grid (game::Board), its move   *)
(* operation (Board::jump), the capture step (Board::blob) with its        *)
(* clamped neighbourhood (Board::neighbors_mut), and the selection state   *)
(* machine that drives it (widgets::board::BoardState).                    *)
(***************************************************************************)
EXTENDS Integers, Sequences, FiniteSets, TLC

(* ---------------------------------------------------------------------- *)
(* Bounds of the model                                                     *)
(* ---------------------------------------------------------------------- *)

\* number of rows of the grids explored
Height == 3

\* number of columns of the grids explored
Width == 4

\* largest number of Board::jump calls a test makes in a row
MaxJumps == 2

\* largest number of commands given to a BoardState
MaxCommands == 9

\* the largest height and width given to a probed constructor
MaxDim == 2

\* the longest vector of cells given to a probed constructor
MaxLen == 4

\* the grid of a session of the application: Board::new(8, 8, board)
AppHeight == 8

AppWidth == 8

\* the grid of the unit tests of game.rs: Board::new(5, 5, ...)
TestHeight == 5

TestWidth == 5

(* ---------------------------------------------------------------------- *)
(* usize helpers                                                           *)
(* ---------------------------------------------------------------------- *)

saturating_sub(a, b) == IF a >= b THEN a - b ELSE 0

abs_diff(a, b) == IF a >= b THEN a - b ELSE b - a

max(a, b) == IF a >= b THEN a ELSE b

min(a, b) == IF a <= b THEN a ELSE b

(* Option<T> *)
None == << >>

Some(x) == << x >>

(* ---------------------------------------------------------------------- *)
(* game::Player and game::CellState                                        *)
(* ---------------------------------------------------------------------- *)

Players == {"Blue", "Red"}

\* a negation answering Red for both players
Neg_red(p) == "Red"

Neg(p) == IF p = "Blue" THEN "Red" ELSE "Blue"

Player(p) == << "Player", p >>

Free == << "Free" >>

Restricted == << "Restricted" >>

CellState == {Free, Restricted} \cup {Player(p) : p \in Players}

is_playable(self) == self[1] = "Player"

\* is_free taking a Restricted cell for a free one
is_free_or_restricted(self) == self = Free \/ self = Restricted

is_free(self) == self = Free

\* is_opponent_of taking every cell that is neither Free nor the other's
\* own for an opponent
is_opponent_of_not_own(self, other) ==
    other[1] = "Player" /\ self # Free /\ self # other

\* is_opponent_of holding for any two cells held by players
is_opponent_of_players(self, other) ==
    self[1] = "Player" /\ other[1] = "Player"

is_opponent_of(self, other) ==
    IF self[1] = "Player"
    THEN IF other[1] = "Player" THEN self[2] = Neg(other[2]) ELSE FALSE
    ELSE FALSE

(* ---------------------------------------------------------------------- *)
(* game::Score                                                             *)
(* ---------------------------------------------------------------------- *)

ScoreDefault == [red |-> 0, blue |-> 0]

\* the value behind Score::get_mut(player)
ScoreGet(score, player) == IF player = "Blue" THEN score.blue ELSE score.red

\* a write through Score::get_mut(player)
ScoreSet(score, player, v) ==
    IF player = "Blue" THEN [score EXCEPT !.blue = v] ELSE [score EXCEPT !.red = v]

(* ---------------------------------------------------------------------- *)
(* game::Board: a record [board, score, height, width]; the cell of        *)
(* linear index i (zero-based, row-major) is board[i + 1]                  *)
(* ---------------------------------------------------------------------- *)

RECURSIVE CountFold(_, _, _)
\* the fold of Board::new over cells[k..]: one increment per Player cell
CountFold(cells, k, score) ==
    IF k > Len(cells) THEN score
    ELSE LET cell == cells[k]
             next == IF cell[1] = "Player"
                     THEN ScoreSet(score, cell[2], ScoreGet(score, cell[2]) + 1)
                     ELSE score
         IN CountFold(cells, k + 1, next)

\* Board::free storing its two dimensions the wrong way round
BoardFree_transposed(height, width) ==
    [board |-> [i \in 1..(height * width) |-> Free],
     score |-> ScoreDefault,
     height |-> width,
     width |-> height]

BoardFree(height, width) ==
    [board |-> [i \in 1..(height * width) |-> Free],
     score |-> ScoreDefault,
     height |-> height,
     width |-> width]

\* Board::new keeping the default score instead of counting the pieces
BoardNew_uncounted(height, width, cells) ==
    [board |-> cells,
     score |-> ScoreDefault,
     height |-> height,
     width |-> width]

\* Board::new, for an input that passes its length assertion
BoardNew(height, width, cells) ==
    [board |-> cells,
     score |-> CountFold(cells, 1, ScoreDefault),
     height |-> height,
     width |-> width]

\* Board::new whose assertion only asks for enough cells
BoardNewCall_enough(height, width, cells) ==
    IF Len(cells) < height * width
    THEN [panicked |-> TRUE, self |-> None]
    ELSE [panicked |-> FALSE, self |-> BoardNew(height, width, cells)]

\* Board::new, its assertion included: assert_eq!(board.len(), height * width)
\* panics before anything is built
BoardNewCall(height, width, cells) ==
    IF Len(cells) # height * width
    THEN [panicked |-> TRUE, self |-> None]
    ELSE [panicked |-> FALSE, self |-> BoardNew(height, width, cells)]

\* contains testing the row alone
contains_row(self, row, column) == row \in 0..(self.height - 1)

contains(self, row, column) ==
    row \in 0..(self.height - 1) /\ column \in 0..(self.width - 1)

\* get trusting the linear index alone
get_unchecked(self, row, column) ==
    IF row * self.width + column < Len(self.board)
    THEN Some(self.board[row * self.width + column + 1])
    ELSE None

get(self, row, column) ==
    IF contains(self, row, column)
    THEN IF row * self.width + column < Len(self.board)
         THEN Some(self.board[row * self.width + column + 1])
         ELSE None
    ELSE None

\* jump_distance accepting the distance 1 alone
jump_distance_adjacent(self, from, to) ==
    IF contains(self, from[1], from[2]) /\ contains(self, to[1], to[2])
    THEN LET distance == max(abs_diff(from[1], to[1]), abs_diff(from[2], to[2]))
         IN IF distance = 1 THEN Some(distance) ELSE None
    ELSE None

\* jump_distance accepting the distance 3
jump_distance_upto3(self, from, to) ==
    IF contains(self, from[1], from[2]) /\ contains(self, to[1], to[2])
    THEN LET distance == max(abs_diff(from[1], to[1]), abs_diff(from[2], to[2]))
         IN IF distance \in 1..3 THEN Some(distance) ELSE None
    ELSE None

\* jump_distance checking the departure position only
jump_distance_from_only(self, from, to) ==
    IF contains(self, from[1], from[2])
    THEN LET distance == max(abs_diff(from[1], to[1]), abs_diff(from[2], to[2]))
         IN IF distance \in 1..2 THEN Some(distance) ELSE None
    ELSE None

jump_distance(self, from, to) ==
    IF contains(self, from[1], from[2]) /\ contains(self, to[1], to[2])
    THEN LET distance == max(abs_diff(from[1], to[1]), abs_diff(from[2], to[2]))
         IN IF distance \in 1..2 THEN Some(distance) ELSE None
    ELSE None

\* the positions of an n-element iterator that survive .skip(skip).take(take)
SkipTake(n, skip, take) ==
    [k \in 1..max(0, min(n, skip + take) - skip) |-> skip + k - 1]

RECURSIVE FlatMap(_, _, _, _, _)
\* the flat_map of neighbors_mut over rows[k..]: the linear indices of the
\* cells kept in each kept chunk, in iteration order
FlatMap(self, rows, k, cskip, ctake) ==
    IF k > Len(rows) THEN << >>
    ELSE LET i == rows[k]
             chunklen == min(self.width, Len(self.board) - i * self.width)
             cols == SkipTake(chunklen, cskip, ctake)
         IN [j \in 1..Len(cols) |-> i * self.width + cols[j]]
            \o FlatMap(self, rows, k + 1, cskip, ctake)

\* neighbors_mut with a window one cell wider on each side
neighbors_mut_wider(self, row, column, radius) ==
    IF contains(self, row, column)
    THEN LET nchunks == (Len(self.board) + self.width - 1) \div self.width
             wide == radius + 1
             rows == SkipTake(nchunks,
                              saturating_sub(row, wide),
                              1 + wide + min(saturating_sub(row, wide), wide))
         IN FlatMap(self, rows, 1,
                    saturating_sub(column, wide),
                    1 + wide + min(saturating_sub(column, wide), wide))
    ELSE << >>

\* neighbors_mut taking 1 + 2 * radius rows and columns whatever the centre
neighbors_mut_unclamped(self, row, column, radius) ==
    IF contains(self, row, column)
    THEN LET nchunks == (Len(self.board) + self.width - 1) \div self.width
             rows == SkipTake(nchunks, saturating_sub(row, radius), 1 + radius + radius)
         IN FlatMap(self, rows, 1, saturating_sub(column, radius), 1 + radius + radius)
    ELSE << >>

\* Board::neighbors_mut: the linear indices (zero-based) of the cells it yields
neighbors_mut(self, row, column, radius) ==
    IF contains(self, row, column)
    THEN LET nchunks == (Len(self.board) + self.width - 1) \div self.width
             rows == SkipTake(nchunks,
                              saturating_sub(row, radius),
                              1 + radius + min(saturating_sub(row, radius), radius))
         IN FlatMap(self, rows, 1,
                    saturating_sub(column, radius),
                    1 + radius + min(saturating_sub(column, radius), radius))
    ELSE << >>

RECURSIVE BlobLoop(_, _, _, _, _)
\* the for loop of Board::blob over idxs[k..]; acc = [board, score, panicked].
\* `-= 1` on a zero usize is an arithmetic overflow: the loop stops there
\* with panicked set.
BlobLoop(acc, idxs, k, new_state, new_player) ==
    IF k > Len(idxs) \/ acc.panicked THEN acc
    ELSE LET i == idxs[k] + 1
         IN IF is_opponent_of(acc.board[i], new_state)
            THEN LET gained == ScoreSet(acc.score, new_player,
                                        ScoreGet(acc.score, new_player) + 1)
                 IN IF ScoreGet(gained, Neg(new_player)) = 0
                    THEN [acc EXCEPT !.score = gained, !.panicked = TRUE]
                    ELSE BlobLoop(
                           [acc EXCEPT
                              !.score = ScoreSet(gained, Neg(new_player),
                                                 ScoreGet(gained, Neg(new_player)) - 1),
                              !.board[i] = new_state],
                           idxs, k + 1, new_state, new_player)
            ELSE BlobLoop(acc, idxs, k + 1, new_state, new_player)

\* Board::blob; the result is [self, ret, panicked]
blob(self, row, column) ==
    LET cur == get(self, row, column)
    IN IF cur # None /\ is_playable(cur[1])
       THEN LET new_state == cur[1]
                new_player == new_state[2]
                r == BlobLoop([board |-> self.board, score |-> self.score,
                               panicked |-> FALSE],
                              neighbors_mut(self, row, column, 1), 1,
                              new_state, new_player)
            IN IF r.panicked
               THEN [self |-> [self EXCEPT !.board = r.board],
                     ret |-> FALSE, panicked |-> TRUE]
               ELSE [self |-> [self EXCEPT !.board = r.board, !.score = r.score],
                     ret |-> TRUE, panicked |-> FALSE]
       ELSE [self |-> self, ret |-> FALSE, panicked |-> FALSE]

\* vacate_or_count forgetting to count the piece a clone adds
vacate_without_count(placed, from, player, distance) ==
    IF distance = 2
    THEN [placed EXCEPT !.board[from[1] * placed.width + from[2] + 1] = Free]
    ELSE placed

\* vacate_or_count vacating the origin whatever the distance
vacate_always(placed, from, player, distance) ==
    [placed EXCEPT !.board[from[1] * placed.width + from[2] + 1] = Free]

\* vacate_or_count treating every move as a clone
count_always(placed, from, player, distance) ==
    [placed EXCEPT !.score = ScoreSet(placed.score, player,
                                      ScoreGet(placed.score, player) + 1)]

\* vacate_or_count counting one more piece for a distance-2 jump as well
vacate_and_count(placed, from, player, distance) ==
    IF distance = 2
    THEN [placed EXCEPT !.board[from[1] * placed.width + from[2] + 1] = Free,
                        !.score = ScoreSet(placed.score, player,
                                           ScoreGet(placed.score, player) + 1)]
    ELSE [placed EXCEPT !.score = ScoreSet(placed.score, player,
                                           ScoreGet(placed.score, player) + 1)]

\* the if/else of Board::jump on the distance, once the destination is
\* written: a distance-2 jump vacates the origin, a distance-1 clone counts
\* one more piece for the player
vacate_or_count(placed, from, player, distance) ==
    IF distance = 2
    THEN [placed EXCEPT !.board[from[1] * placed.width + from[2] + 1] = Free]
    ELSE [placed EXCEPT !.score = ScoreSet(placed.score, player,
                                           ScoreGet(placed.score, player) + 1)]

\* Board::jump writing the destination before it checks that it is Free
jump_write_first(self, from, to) ==
    LET d == jump_distance(self, from, to)
        src == get(self, from[1], from[2])
        dst == get(self, to[1], to[2])
    IN IF d # None /\ src # None /\ is_playable(src[1]) /\ dst # None
       THEN LET player_state == src[1]
                placed == [self EXCEPT
                             !.board[to[1] * self.width + to[2] + 1] = player_state]
            IN IF is_free(dst[1])
               THEN blob(vacate_or_count(placed, from, player_state[2], d[1]),
                         to[1], to[2])
               ELSE [self |-> placed, ret |-> FALSE, panicked |-> FALSE]
       ELSE [self |-> self, ret |-> FALSE, panicked |-> FALSE]

\* jump pushing the piece at the end of the vector of cells
jump_push(self, from, to) ==
    LET d == jump_distance(self, from, to)
        src == get(self, from[1], from[2])
        dst == get(self, to[1], to[2])
    IN IF /\ d # None
          /\ src # None /\ is_playable(src[1])
          /\ dst # None /\ is_free(dst[1])
       THEN [self |-> [self EXCEPT !.board = Append(@, src[1])],
             ret |-> TRUE, panicked |-> FALSE]
       ELSE [self |-> self, ret |-> FALSE, panicked |-> FALSE]

\* Board::jump; the result is [self, ret, panicked]. The unwrap of
\* get_mut(from) panics on None.
jump(self, from, to) ==
    LET d == jump_distance(self, from, to)
        src == get(self, from[1], from[2])
        dst == get(self, to[1], to[2])
    IN IF /\ d # None
          /\ src # None /\ is_playable(src[1])
          /\ dst # None /\ is_free(dst[1])
       THEN LET player_state == src[1]
                placed == [self EXCEPT
                             !.board[to[1] * self.width + to[2] + 1] = player_state]
            IN IF d[1] = 2 /\ get(placed, from[1], from[2]) = None
               THEN [self |-> placed, ret |-> FALSE, panicked |-> TRUE]
               ELSE blob(vacate_or_count(placed, from, player_state[2], d[1]),
                         to[1], to[2])
       ELSE [self |-> self, ret |-> FALSE, panicked |-> FALSE]

(* ---------------------------------------------------------------------- *)
(* widgets::board::BoardState: the grid it owns is the variable board, its *)
(* other fields are the record state                                       *)
(* ---------------------------------------------------------------------- *)

BoardStateNew(current_player) ==
    [current_player |-> current_player,
     selected |-> << 0, 0 >>,
     from |-> None,
     to |-> None]

\* the cursor move without its test of the target
cursor_jump_unchecked(self, b, target) == [self EXCEPT !.selected = target]

\* BoardState::jump, the cursor move shared by left/right/up/down
cursor_jump(self, b, target) ==
    IF contains(b, target[1], target[2]) THEN [self EXCEPT !.selected = target]
    ELSE self

\* left wrapping from the first column to the last one
left_wrapping(self, b) ==
    cursor_jump(self, b,
                << self.selected[1],
                   IF self.selected[2] = 0 THEN b.width - 1 ELSE self.selected[2] - 1 >>)

left(self, b) ==
    cursor_jump(self, b, << self.selected[1], saturating_sub(self.selected[2], 1) >>)

right(self, b) == cursor_jump(self, b, << self.selected[1], self.selected[2] + 1 >>)

up(self, b) ==
    cursor_jump(self, b, << saturating_sub(self.selected[1], 1), self.selected[2] >>)

down(self, b) == cursor_jump(self, b, << self.selected[1] + 1, self.selected[2] >>)

\* reset clearing the origin whatever is pending
reset_origin_only(self) == [self EXCEPT !.from = None]

\* reset clearing the origin before the destination
reset_origin_first(self) ==
    IF self.from # None THEN [self EXCEPT !.from = None] ELSE [self EXCEPT !.to = None]

reset(self) ==
    IF self.to # None THEN [self EXCEPT !.to = None] ELSE [self EXCEPT !.from = None]

pass_to_next_player(self) == [self EXCEPT !.current_player = Neg(self.current_player)]

\* TryFrom<CellState> for Player, as an Option: the player of a Player cell
try_into_player(cell) == IF cell[1] = "Player" THEN Some(cell[2]) ELSE None

\* what a handler that does not call Board::jump leaves of the grid
NoJump(b) == [self |-> b, ret |-> FALSE, panicked |-> FALSE]

\* select taking the cell of either player for an origin
select_any_player(self, b) ==
    LET current_cell == get(b, self.selected[1], self.selected[2])
        same == [state |-> self, called |-> FALSE,
                 at |-> << self.selected, self.selected >>, r |-> NoJump(b)]
    IN IF self.from # None
       THEN IF self.to # None
            THEN [state |-> [self EXCEPT !.from = None, !.to = None],
                  called |-> TRUE,
                  at |-> << self.from[1], self.to[1] >>,
                  r |-> jump(b, self.from[1], self.to[1])]
            ELSE IF current_cell # None /\ is_free(current_cell[1])
                 THEN [same EXCEPT !.state = [self EXCEPT !.to = Some(self.selected)]]
                 ELSE same
       ELSE IF /\ current_cell # None
               /\ try_into_player(current_cell[1]) # None
            THEN [same EXCEPT !.state = [self EXCEPT !.from = Some(self.selected)]]
            ELSE same

\* select taking any cell of the grid for a destination
select_to_unchecked(self, b) ==
    LET current_cell == get(b, self.selected[1], self.selected[2])
        same == [state |-> self, called |-> FALSE,
                 at |-> << self.selected, self.selected >>, r |-> NoJump(b)]
    IN IF self.from # None
       THEN IF self.to # None
            THEN [state |-> [self EXCEPT !.from = None, !.to = None],
                  called |-> TRUE,
                  at |-> << self.from[1], self.to[1] >>,
                  r |-> jump(b, self.from[1], self.to[1])]
            ELSE IF current_cell # None
                 THEN [same EXCEPT !.state = [self EXCEPT !.to = Some(self.selected)]]
                 ELSE same
       ELSE IF /\ current_cell # None
               /\ try_into_player(current_cell[1]) # None
               /\ try_into_player(current_cell[1])[1] = self.current_player
            THEN [same EXCEPT !.state = [self EXCEPT !.from = Some(self.selected)]]
            ELSE same

\* select keeping the two selections when Board::jump returned false
select_keep_on_failure(self, b) ==
    LET current_cell == get(b, self.selected[1], self.selected[2])
        same == [state |-> self, called |-> FALSE,
                 at |-> << self.selected, self.selected >>, r |-> NoJump(b)]
    IN IF self.from # None
       THEN IF self.to # None
            THEN [state |-> IF jump(b, self.from[1], self.to[1]).ret
                            THEN [self EXCEPT !.from = None, !.to = None]
                            ELSE self,
                  called |-> TRUE,
                  at |-> << self.from[1], self.to[1] >>,
                  r |-> jump(b, self.from[1], self.to[1])]
            ELSE IF current_cell # None /\ is_free(current_cell[1])
                 THEN [same EXCEPT !.state = [self EXCEPT !.to = Some(self.selected)]]
                 ELSE same
       ELSE IF /\ current_cell # None
               /\ try_into_player(current_cell[1]) # None
               /\ try_into_player(current_cell[1])[1] = self.current_player
            THEN [same EXCEPT !.state = [self EXCEPT !.from = Some(self.selected)]]
            ELSE same

\* select leaving both selections pending after it called Board::jump
select_keep_selection(self, b) ==
    LET current_cell == get(b, self.selected[1], self.selected[2])
        same == [state |-> self, called |-> FALSE,
                 at |-> << self.selected, self.selected >>, r |-> NoJump(b)]
    IN IF self.from # None
       THEN IF self.to # None
            THEN [state |-> self,
                  called |-> TRUE,
                  at |-> << self.from[1], self.to[1] >>,
                  r |-> jump(b, self.from[1], self.to[1])]
            ELSE IF current_cell # None /\ is_free(current_cell[1])
                 THEN [same EXCEPT !.state = [self EXCEPT !.to = Some(self.selected)]]
                 ELSE same
       ELSE IF /\ current_cell # None
               /\ try_into_player(current_cell[1]) # None
               /\ try_into_player(current_cell[1])[1] = self.current_player
            THEN [same EXCEPT !.state = [self EXCEPT !.from = Some(self.selected)]]
            ELSE same

\* select clearing the destination alone after it called Board::jump
select_keep_origin(self, b) ==
    LET current_cell == get(b, self.selected[1], self.selected[2])
        same == [state |-> self, called |-> FALSE,
                 at |-> << self.selected, self.selected >>, r |-> NoJump(b)]
    IN IF self.from # None
       THEN IF self.to # None
            THEN [state |-> [self EXCEPT !.to = None],
                  called |-> TRUE,
                  at |-> << self.from[1], self.to[1] >>,
                  r |-> jump(b, self.from[1], self.to[1])]
            ELSE IF current_cell # None /\ is_free(current_cell[1])
                 THEN [same EXCEPT !.state = [self EXCEPT !.to = Some(self.selected)]]
                 ELSE same
       ELSE IF /\ current_cell # None
               /\ try_into_player(current_cell[1]) # None
               /\ try_into_player(current_cell[1])[1] = self.current_player
            THEN [same EXCEPT !.state = [self EXCEPT !.from = Some(self.selected)]]
            ELSE same

\* BoardState::select; the result is [state, called, at, r]: the new fields,
\* whether Board::jump was called, with which positions, and what it returned
select(self, b) ==
    LET current_cell == get(b, self.selected[1], self.selected[2])
        same == [state |-> self, called |-> FALSE,
                 at |-> << self.selected, self.selected >>, r |-> NoJump(b)]
    IN IF self.from # None
       THEN IF self.to # None
            THEN [state |-> [self EXCEPT !.from = None, !.to = None],
                  called |-> TRUE,
                  at |-> << self.from[1], self.to[1] >>,
                  r |-> jump(b, self.from[1], self.to[1])]
            ELSE IF current_cell # None /\ is_free(current_cell[1])
                 THEN [same EXCEPT !.state = [self EXCEPT !.to = Some(self.selected)]]
                 ELSE same
       ELSE IF /\ current_cell # None
               /\ try_into_player(current_cell[1]) # None
               /\ try_into_player(current_cell[1])[1] = self.current_player
            THEN [same EXCEPT !.state = [self EXCEPT !.from = Some(self.selected)]]
            ELSE same

Command == {"Back", "Exit", "Reset", "Select", "Left", "Right", "Up", "Down"}

\* handle_command taking Back and Exit for Reset
handle_command_back_resets(self, b, command) ==
    LET moved(s) == [state |-> s, called |-> FALSE,
                     at |-> << self.selected, self.selected >>, r |-> NoJump(b)]
    IN CASE command = "Select" ->
              LET s == select(self, b)
              IN [s EXCEPT !.state = pass_to_next_player(s.state)]
         [] command = "Left" -> moved(left(self, b))
         [] command = "Right" -> moved(right(self, b))
         [] command = "Up" -> moved(up(self, b))
         [] command = "Down" -> moved(down(self, b))
         [] OTHER -> moved(reset(self))

\* handle_command passing to the next player only when select changed
\* a selection or called Board::jump
handle_command_pass_on_change(self, b, command) ==
    LET moved(s) == [state |-> s, called |-> FALSE,
                     at |-> << self.selected, self.selected >>, r |-> NoJump(b)]
    IN CASE command = "Reset" -> moved(reset(self))
         [] command = "Select" ->
              LET s == select(self, b)
              IN IF s.called \/ s.state # self
                 THEN [s EXCEPT !.state = pass_to_next_player(s.state)]
                 ELSE s
         [] command = "Left" -> moved(left(self, b))
         [] command = "Right" -> moved(right(self, b))
         [] command = "Up" -> moved(up(self, b))
         [] command = "Down" -> moved(down(self, b))
         [] OTHER -> moved(self)

\* CommandManaged for BoardState; the result has the shape of select's
handle_command(self, b, command) ==
    LET moved(s) == [state |-> s, called |-> FALSE,
                     at |-> << self.selected, self.selected >>, r |-> NoJump(b)]
    IN CASE command = "Reset" -> moved(reset(self))
         [] command = "Select" ->
              LET s == select(self, b)
              IN [s EXCEPT !.state = pass_to_next_player(s.state)]
         [] command = "Left" -> moved(left(self, b))
         [] command = "Right" -> moved(right(self, b))
         [] command = "Up" -> moved(up(self, b))
         [] command = "Down" -> moved(down(self, b))
         [] OTHER -> moved(self)

(* ---------------------------------------------------------------------- *)
(* ApplicationState: the variant is a string, and the BoardState of the    *)
(* variant Board is a grid and a controller record                         *)
(* ---------------------------------------------------------------------- *)

has_exited(self) == self = "Exit"

\* what stands for the grid and the controller in the variants Logo and
\* Exit, which hold none
NoBoard == BoardFree(0, 0)

NoBoardState == BoardStateNew("Blue")

\* the vector of cells Select builds in the variant Logo
OpeningCells ==
    [i \in 1..(AppHeight * AppWidth) |->
        IF i = 1 THEN Player("Red")
        ELSE IF i = AppHeight * AppWidth THEN Player("Blue")
        ELSE Free]

\* a variant of ApplicationState with what it holds; h has the shape of
\* select's result
Variant(app, s, b) ==
    [app |-> app,
     h |-> [state |-> s, called |-> FALSE,
            at |-> << s.selected, s.selected >>, r |-> NoJump(b)]]

\* Back leaving the variant Logo as it is
back_stays_at_logo(app, self, b) ==
    CASE app = "Board" -> Variant("Logo", NoBoardState, NoBoard)
      [] OTHER -> Variant(app, self, b)

\* the arm Command::Back of ApplicationState::handle_command
back(app, self, b) ==
    CASE app = "Board" -> Variant("Logo", NoBoardState, NoBoard)
      [] app = "Exit" -> Variant(app, self, b)
      [] app = "Logo" -> Variant("Exit", NoBoardState, NoBoard)

\* Select opening a session from the variant Exit as from Logo
delegate_restart(app, self, b, command) ==
    CASE app = "Board" -> [app |-> "Board", h |-> handle_command(self, b, command)]
      [] OTHER ->
           IF command = "Select"
           THEN Variant("Board", BoardStateNew("Blue"),
                        BoardNew(AppHeight, AppWidth, OpeningCells))
           ELSE Variant(app, self, b)

\* Select opening a session in which Red moves first
delegate_red_first(app, self, b, command) ==
    CASE app = "Board" -> [app |-> "Board", h |-> handle_command(self, b, command)]
      [] app = "Exit" -> Variant(app, self, b)
      [] app = "Logo" ->
           IF command = "Select"
           THEN Variant("Board", BoardStateNew("Red"),
                        BoardNew(AppHeight, AppWidth, OpeningCells))
           ELSE Variant(app, self, b)

\* the arm of the other commands of ApplicationState::handle_command
delegate(app, self, b, command) ==
    CASE app = "Board" -> [app |-> "Board", h |-> handle_command(self, b, command)]
      [] app = "Exit" -> Variant(app, self, b)
      [] app = "Logo" ->
           IF command = "Select"
           THEN Variant("Board", BoardStateNew("Blue"),
                        BoardNew(AppHeight, AppWidth, OpeningCells))
           ELSE Variant(app, self, b)

\* CommandManaged for ApplicationState; the result is [app, h]
app_handle_command(app, self, b, command) ==
    CASE command = "Back" -> back(app, self, b)
      [] command = "Exit" -> Variant("Exit", NoBoardState, NoBoard)
      [] OTHER -> delegate(app, self, b, command)

(* ---------------------------------------------------------------------- *)
(* State                                                                   *)
(* ---------------------------------------------------------------------- *)

VARIABLES
    board,      \* the game::Board (BoardState.board when a controller owns it)
    state,      \* the other fields of BoardState
    driver,     \* who owns the grid: "test" (a test calling Board::jump) or "app"
    calls,      \* number of Board::jump calls made so far
    commands,   \* number of commands handled so far
    last,       \* the observed Board::jump call: [from, to, ret, old, dist, rev]:
                \* old the grid before it, dist = old.jump_distance(from, to),
                \* rev = old.jump_distance(to, from)
    init,       \* the grid as constructed
    panicked,   \* some call panicked
    prev,       \* the last method called on the BoardState and what it found:
                \* [method, state, board, calls]
    probe,      \* one call of a function and what it returned: [fn, ..., out]
    application_state   \* the variant of ApplicationState: Logo, Board or Exit

vars == << board, state, driver, calls, commands, last, init, panicked, prev, probe,
           application_state >>

\* a BoardState handled without an ApplicationState around it
NoApplication == "none"

\* no call of the sequence select, moves, select, select made yet
NoCycle == [phase |-> 0, since |-> 0, origin |-> << 0, 0 >>, destination |-> << 0, 0 >>]

\* no method called yet, no function probed yet
NoPrev == [method |-> "none", cycle |-> NoCycle]

NoProbe == [fn |-> "none"]

\* the positions a caller may pass: every cell, and three positions outside
\* the grid (beyond the last row, beyond the last column, beyond both)
Index ==
    ((0..(Height - 1)) \X (0..(Width - 1)))
        \cup {<< Height, 0 >>, << 0, Width >>, << Height, Width >>}

Cells == 1..(Height * Width)

\* sparse grids: two cells (possibly the same one) hold anything, every
\* other cell is Free
SparseCells ==
    { [i \in Cells |-> IF i = t[1] THEN t[3] ELSE IF i = t[2] THEN t[4] ELSE Free] :
        t \in Cells \X Cells \X CellState \X CellState }

\* crowded grids: one piece of a player, one Free cell, the opponent everywhere else
CrowdedCells ==
    { [i \in Cells |-> IF i = m THEN Player(p)
                       ELSE IF i = f THEN Free ELSE Player(Neg(p))] :
        <<p, m, f>> \in {t \in Players \X Cells \X Cells : t[2] # t[3]} }

\* what a test keeps of a call old.jump(from, to) that returned ret
Observed(old, from, to, ret) ==
    [from |-> from, to |-> to, ret |-> ret, old |-> old,
     dist |-> jump_distance(old, from, to),
     rev |-> jump_distance(old, to, from)]

\* a test builds a Board and calls Board::jump on it
Init ==
    /\ board \in {BoardFree(Height, Width)}
                 \cup {BoardNew(Height, Width, cells) : cells \in SparseCells \cup CrowdedCells}
    /\ state = BoardStateNew("Red")
    /\ driver = "test"
    /\ calls = 0
    /\ commands = 0
    /\ last = Observed(board, << 0, 0 >>, << 0, 0 >>, FALSE)
    /\ init = board
    /\ panicked = FALSE
    /\ prev = NoPrev
    /\ probe = NoProbe
    /\ application_state = NoApplication

\* the one call tested.jump(from, to) of the test, its outcome kept in last
Jump ==
    /\ driver = "test"
    /\ calls = 0
    /\ \E from \in Index, to \in Index :
         LET r == jump(board, from, to)
         IN /\ board' = r.self
            /\ last' = Observed(board, from, to, r.ret)
            /\ panicked' = r.panicked
    /\ calls' = calls + 1
    /\ UNCHANGED << state, driver, commands, init, prev, probe, application_state >>

Next == Jump

Spec == Init /\ [][Next]_vars

(* ---------------------------------------------------------------------- *)
(* Sessions: a grid driven through a sequence of Board::jump calls by a    *)
(* test, or through a sequence of commands by the BoardState that owns it  *)
(* ---------------------------------------------------------------------- *)

\* the opening layout of the application (Red in the first cell, Blue in the
\* last one), with or without the Restricted centre cell of the widget tests
SessionCells(restricted) ==
    [i \in Cells |->
        IF i = 1 THEN Player("Red")
        ELSE IF i = Height * Width THEN Player("Blue")
        ELSE IF restricted /\ i = (Height \div 2) * Width + (Width \div 2) + 1
             THEN Restricted
             ELSE Free]

InitSeq ==
    /\ \/ /\ driver = "test"
          /\ board \in {BoardFree(Height, Width)}
                       \cup {BoardNew(Height, Width, SessionCells(r)) : r \in BOOLEAN}
          /\ state = BoardStateNew("Red")
       \/ /\ driver = "app"
          /\ board \in {BoardNew(Height, Width, SessionCells(r)) : r \in BOOLEAN}
          /\ state \in {BoardStateNew(p) : p \in Players}
    /\ calls = 0
    /\ commands = 0
    /\ last = Observed(board, << 0, 0 >>, << 0, 0 >>, FALSE)
    /\ init = board
    /\ panicked = FALSE
    /\ prev = NoPrev
    /\ probe = NoProbe
    /\ application_state = NoApplication

\* one more call tested.jump(from, to) of a test
JumpSeq ==
    /\ driver = "test"
    /\ calls < MaxJumps
    /\ ~panicked
    /\ \E from \in Index, to \in Index :
         LET r == jump(board, from, to)
         IN /\ board' = r.self
            /\ panicked' = r.panicked
    /\ calls' = calls + 1
    /\ UNCHANGED << state, driver, commands, last, init, prev, probe, application_state >>

\* BoardState::handle_command(command)
HandleCommand ==
    /\ driver = "app"
    /\ commands < MaxCommands
    /\ ~panicked
    /\ \E command \in Command :
         LET h == handle_command(state, board, command)
         IN /\ state' = h.state
            /\ board' = h.r.self
            /\ panicked' = h.r.panicked
            /\ calls' = IF h.called THEN calls + 1 ELSE calls
            /\ last' = IF h.called
                       THEN Observed(board, h.at[1], h.at[2], h.r.ret)
                       ELSE last
            /\ prev' = [method |-> command, state |-> state, board |-> board,
                        calls |-> calls, cycle |-> NoCycle]
    /\ commands' = commands + 1
    /\ UNCHANGED << driver, init, probe, application_state >>

NextSeq == JumpSeq \/ HandleCommand

SpecSeq == InitSeq /\ [][NextSeq]_vars

(* ---------------------------------------------------------------------- *)
(* The methods of BoardState called one after the other, as the tests of   *)
(* widgets/board.rs call them; prev keeps what the last call started from  *)
(* ---------------------------------------------------------------------- *)

InitCtl ==
    /\ driver = "widget"
    /\ board \in {BoardNew(Height, Width, SessionCells(r)) : r \in BOOLEAN}
    /\ state \in {BoardStateNew(p) : p \in Players}
    /\ calls = 0
    /\ commands = 0
    /\ last = Observed(board, << 0, 0 >>, << 0, 0 >>, FALSE)
    /\ init = board
    /\ panicked = FALSE
    /\ prev = NoPrev
    /\ probe = NoProbe
    /\ application_state = NoApplication

Method == {"left", "right", "up", "down", "reset", "select", "pass_to_next_player"}

\* how far the calls made so far are into the sequence of tests::blob and
\* tests::jump (select on an own piece with nothing pending, cursor moves,
\* select on a Free cell, select), told from the calls and the cells under
\* the cursor alone: [phase, since, origin, destination], since being the
\* count of Board::jump calls when the sequence began
cycle(before, self, b, method, jumps) ==
    LET cell == get(b, self.selected[1], self.selected[2])
    IN IF /\ method = "select"
          /\ before.phase \in {0, 3}
          /\ self.from = None /\ self.to = None
          /\ cell = Some(Player(self.current_player))
       THEN [phase |-> 1, since |-> jumps, origin |-> self.selected,
             destination |-> self.selected]
       ELSE IF before.phase = 1 /\ method \in {"left", "right", "up", "down"}
       THEN before
       ELSE IF before.phase = 1 /\ method = "select" /\ cell = Some(Free)
       THEN [before EXCEPT !.phase = 2, !.destination = self.selected]
       ELSE IF before.phase = 2 /\ method = "select"
       THEN [before EXCEPT !.phase = 3]
       ELSE NoCycle

\* the public method of BoardState of that name; the result has the shape
\* of select's
call(self, b, method) ==
    LET moved(s) == [state |-> s, called |-> FALSE,
                     at |-> << self.selected, self.selected >>, r |-> NoJump(b)]
    IN CASE method = "left" -> moved(left(self, b))
         [] method = "right" -> moved(right(self, b))
         [] method = "up" -> moved(up(self, b))
         [] method = "down" -> moved(down(self, b))
         [] method = "reset" -> moved(reset(self))
         [] method = "select" -> select(self, b)
         [] method = "pass_to_next_player" -> moved(pass_to_next_player(self))

\* state.method() for one of the public methods of BoardState
CallMethod ==
    /\ driver = "widget"
    /\ commands < MaxCommands
    /\ ~panicked
    /\ \E method \in Method :
         LET h == call(state, board, method)
         IN /\ state' = h.state
            /\ board' = h.r.self
            /\ panicked' = h.r.panicked
            /\ calls' = IF h.called THEN calls + 1 ELSE calls
            /\ last' = IF h.called
                       THEN Observed(board, h.at[1], h.at[2], h.r.ret)
                       ELSE last
            /\ prev' = [method |-> method, state |-> state, board |-> board,
                        calls |-> calls,
                        cycle |-> cycle(prev.cycle, state, board, method, calls)]
    /\ commands' = commands + 1
    /\ UNCHANGED << driver, init, probe, application_state >>

NextCtl == CallMethod

SpecCtl == InitCtl /\ [][NextCtl]_vars

(* ---------------------------------------------------------------------- *)
(* The application: the loop of main.rs, which handles commands until the  *)
(* ApplicationState has exited, and ApplicationState::handle_command       *)
(* called by a user of the library, who may go on after Exit               *)
(* ---------------------------------------------------------------------- *)

InitApp ==
    /\ driver \in {"run", "lib"}
    /\ application_state = "Logo"
    /\ board = NoBoard
    /\ state = NoBoardState
    /\ calls = 0
    /\ commands = 0
    /\ last = Observed(board, << 0, 0 >>, << 0, 0 >>, FALSE)
    /\ init = board
    /\ panicked = FALSE
    /\ prev = NoPrev
    /\ probe = NoProbe

\* application_state.handle_command(command)
Handle(command) ==
    LET a == app_handle_command(application_state, state, board, command)
    IN /\ application_state' = a.app
       /\ state' = a.h.state
       /\ board' = a.h.r.self
       /\ panicked' = a.h.r.panicked
       /\ calls' = IF a.h.called THEN calls + 1 ELSE calls
       /\ last' = IF a.h.called
                  THEN Observed(board, a.h.at[1], a.h.at[2], a.h.r.ret)
                  ELSE last
       /\ prev' = [method |-> command, app |-> application_state,
                   state |-> state, board |-> board, calls |-> calls,
                   cycle |-> NoCycle]
       /\ commands' = commands + 1
       /\ UNCHANGED << driver, init, probe >>

\* one turn of the while loop of run, with a key that is a command
RunCommand ==
    /\ driver = "run"
    /\ ~has_exited(application_state)
    /\ commands < MaxCommands
    /\ ~panicked
    /\ \E command \in Command : Handle(command)

\* handle_command called on an ApplicationState, exited or not
CallHandleCommand ==
    /\ driver = "lib"
    /\ commands < MaxCommands
    /\ ~panicked
    /\ \E command \in Command : Handle(command)

NextApp == RunCommand \/ CallHandleCommand

SpecApp == InitApp /\ [][NextApp]_vars

(* ---------------------------------------------------------------------- *)
(* Single calls of the functions of game.rs, each on inputs drawn from a   *)
(* small set, the call and its result kept in probe                        *)
(* ---------------------------------------------------------------------- *)

InitFn ==
    /\ board = BoardFree(TestHeight, TestWidth)
    /\ state = BoardStateNew("Red")
    /\ driver = "test"
    /\ calls = 0
    /\ commands = 0
    /\ last = Observed(board, << 0, 0 >>, << 0, 0 >>, FALSE)
    /\ init = board
    /\ panicked = FALSE
    /\ prev = NoPrev
    /\ probe = NoProbe
    /\ application_state = NoApplication

\* the grids a probe of neighbors_mut is made on: the Free grid of
\* tests::neighbors::check, and a Free grid of the explored size
ProbeGrids == {BoardFree(TestHeight, TestWidth), BoardFree(Height, Width)}

\* tests::neighbors::check: tested.neighbors_mut(row, column, 1), for every
\* centre of the grid and the centres one row or one column beyond it
ProbeNeighbors ==
    /\ probe = NoProbe
    /\ \E self \in ProbeGrids :
         \E row \in 0..self.height, column \in 0..self.width :
            probe' = [fn |-> "neighbors_mut", self |-> self,
                      row |-> row, column |-> column,
                      out |-> neighbors_mut(self, row, column, 1)]
    /\ UNCHANGED << board, state, driver, calls, commands, last, init, panicked, prev, application_state >>

\* the vectors of cells of at most n cells
CellVectors(n) == UNION {[1..k -> CellState] : k \in 0..n}

\* Board::new(height, width, cells), of any length against any dimensions
ProbeNew ==
    /\ probe = NoProbe
    /\ \E height \in 0..MaxDim, width \in 0..MaxDim, cells \in CellVectors(MaxLen) :
          probe' = [fn |-> "new", height |-> height, width |-> width,
                    cells |-> cells,
                    out |-> BoardNewCall(height, width, cells)]
    /\ UNCHANGED << board, state, driver, calls, commands, last, init, panicked, prev, application_state >>

\* Board::free(height, width), then one jump on the grid it returned
ProbeFree ==
    /\ probe = NoProbe
    /\ \E dims \in ((0..MaxDim) \X (0..MaxDim)) \cup {<< Height, Width >>} :
         \E from \in (0..dims[1]) \X (0..dims[2]), to \in (0..dims[1]) \X (0..dims[2]) :
            LET out == BoardFree(dims[1], dims[2])
            IN probe' = [fn |-> "free", height |-> dims[1], width |-> dims[2],
                         from |-> from, to |-> to,
                         out |-> out, jumped |-> jump(out, from, to)]
    /\ UNCHANGED << board, state, driver, calls, commands, last, init, panicked, prev, application_state >>

\* contains(row, column) and get(row, column) on a grid built by Board::new,
\* for every position of the grid and those up to two rows or columns beyond
ProbeGet ==
    /\ probe = NoProbe
    /\ \E height \in 0..MaxDim, width \in 0..MaxDim :
         \E cells \in {v \in CellVectors(MaxLen) : Len(v) = height * width} :
            \E row \in 0..(height + 1), column \in 0..(width + 1) :
               LET self == BoardNew(height, width, cells)
               IN probe' = [fn |-> "get", self |-> self, cells |-> cells,
                            row |-> row, column |-> column,
                            contains |-> contains(self, row, column),
                            out |-> get(self, row, column)]
    /\ UNCHANGED << board, state, driver, calls, commands, last, init, panicked, prev, application_state >>

\* self.is_opponent_of(other), and the same with the two cells exchanged
ProbeOpponent ==
    /\ probe = NoProbe
    /\ \E self \in CellState, other \in CellState :
          probe' = [fn |-> "is_opponent_of", self |-> self, other |-> other,
                    out |-> is_opponent_of(self, other),
                    rev |-> is_opponent_of(other, self)]
    /\ UNCHANGED << board, state, driver, calls, commands, last, init, panicked, prev, application_state >>

\* -player and -(-player), and pass_to_next_player called twice on the
\* controller of that player
ProbeNeg ==
    /\ probe = NoProbe
    /\ \E player \in Players :
          probe' = [fn |-> "neg", player |-> player,
                    out |-> Neg(player),
                    twice |-> Neg(Neg(player)),
                    passed |-> pass_to_next_player(BoardStateNew(player)),
                    passed_twice |-> pass_to_next_player(
                                        pass_to_next_player(BoardStateNew(player)))]
    /\ UNCHANGED << board, state, driver, calls, commands, last, init, panicked, prev, application_state >>

\* neighbors_mut(row, column, 1) and blob(row, column) on a grid, for every
\* position of the grid and those up to two rows or columns beyond it
ProbeBlob ==
    /\ probe = NoProbe
    /\ \E self \in ProbeGrids \cup {BoardNew(Height, Width, SessionCells(r)) : r \in BOOLEAN} :
         \E row \in 0..(self.height + 1), column \in 0..(self.width + 1) :
            probe' = [fn |-> "blob", self |-> self,
                      row |-> row, column |-> column,
                      neighbors |-> neighbors_mut(self, row, column, 1),
                      out |-> blob(self, row, column)]
    /\ UNCHANGED << board, state, driver, calls, commands, last, init, panicked, prev, application_state >>

NextFn ==
    \/ ProbeNeighbors
    \/ ProbeBlob
    \/ ProbeNew
    \/ ProbeFree
    \/ ProbeGet
    \/ ProbeOpponent
    \/ ProbeNeg

SpecFn == InitFn /\ [][NextFn]_vars

(* ---------------------------------------------------------------------- *)
(* Vocabulary of the properties, stated on the grid geometry itself        *)
(* ---------------------------------------------------------------------- *)

\* p is a position of the grid
InGrid(p) == p[1] >= 0 /\ p[1] < Height /\ p[2] >= 0 /\ p[2] < Width

\* Chebyshev (king-move) distance of two positions
Chebyshev(a, b) ==
    LET dr == IF a[1] > b[1] THEN a[1] - b[1] ELSE b[1] - a[1]
        dc == IF a[2] > b[2] THEN a[2] - b[2] ELSE b[2] - a[2]
    IN IF dr > dc THEN dr ELSE dc

Positions == (0..(Height - 1)) \X (0..(Width - 1))

\* the cell of grid b at the in-grid position p
CellAt(b, p) == b.board[p[1] * Width + p[2] + 1]

\* the number of cells of grid b holding a piece of player p
Pieces(b, p) == Cardinality({q \in Positions : CellAt(b, q) = Player(p)})

\* the observed call was made and returned true / false
Succeeded == calls > 0 /\ last.ret

Failed == calls > 0 /\ ~last.ret

\* the player whose piece the observed call found at its origin
Mover == CellAt(last.old, last.from)[2]

\* the cells the observed call turned from the opponent's to the mover's
Captured ==
    {q \in Positions : /\ CellAt(last.old, q) = Player(Neg(Mover))
                       /\ CellAt(board, q) = Player(Mover)}

\* the opponent's cells around the landing cell before the observed call
OpponentNeighbours ==
    {q \in Positions : /\ Chebyshev(q, last.to) <= 1
                       /\ CellAt(last.old, q) = Player(Neg(Mover))}

\* the observed call was legal: a move shape, a piece at the origin, a Free
\* destination
Legal ==
    /\ InGrid(last.from) /\ InGrid(last.to)
    /\ Chebyshev(last.from, last.to) \in {1, 2}
    /\ CellAt(last.old, last.from) \in {Player(p) : p \in Players}
    /\ CellAt(last.old, last.to) = Free

(* ---------------------------------------------------------------------- *)
(* Properties of one Board::jump call (specification Spec)                 *)
(* ---------------------------------------------------------------------- *)

\* C2: a jump that returns false leaves every cell and both scores exactly
\* as they were before the call
C2_AtomicOnFailure == Failed => board = last.old

\* C2 witness: a failed call whose origin held a piece and whose destination,
\* at distance 1 or 2, was Restricted
C2_Witness ==
    /\ Failed
    /\ InGrid(last.from) /\ InGrid(last.to)
    /\ Chebyshev(last.from, last.to) \in {1, 2}
    /\ CellAt(last.old, last.from) = Player("Red")
    /\ CellAt(last.old, last.to) = Restricted

\* C3: jump returns true iff jump_distance is a value, the origin holds a
\* piece and the destination is Free
C3_ReturnsTrueIffLegal == calls > 0 => (last.ret <=> Legal)

\* C3 witness: a call that returned true
C3_Witness == Succeeded /\ Legal /\ Chebyshev(last.from, last.to) = 2

\* C4: after a successful jump every opponent cell within distance 1 of the
\* landing cell belongs to the mover, and the opponent's score went down by
\* the number of those cells
C4_CaptureComplete ==
    Succeeded =>
        /\ \A q \in OpponentNeighbours : CellAt(board, q) = Player(Mover)
        /\ ScoreGet(board.score, Neg(Mover))
             = ScoreGet(last.old.score, Neg(Mover)) - Cardinality(OpponentNeighbours)

\* C5: a successful distance-2 jump vacates the origin, occupies the
\* destination, and changes the mover's score by the captured cells only
C5_JumpMove ==
    (Succeeded /\ Chebyshev(last.from, last.to) = 2) =>
        /\ CellAt(board, last.from) = Free
        /\ CellAt(board, last.to) = Player(Mover)
        /\ ScoreGet(board.score, Mover)
             = ScoreGet(last.old.score, Mover) + Cardinality(Captured)

\* C5 witness: a successful distance-2 jump that captured a cell
C5_Witness ==
    Succeeded /\ Chebyshev(last.from, last.to) = 2 /\ Cardinality(Captured) >= 1

\* C6: a successful distance-1 clone keeps the origin, occupies the
\* destination, and raises the mover's score by 1 plus the captured cells
C6_CloneMove ==
    (Succeeded /\ Chebyshev(last.from, last.to) = 1) =>
        /\ CellAt(board, last.from) = Player(Mover)
        /\ CellAt(board, last.to) = Player(Mover)
        /\ ScoreGet(board.score, Mover)
             = ScoreGet(last.old.score, Mover) + 1 + Cardinality(Captured)

\* C6 witness: a successful clone that captured two cells or more
C6_Witness ==
    Succeeded /\ Chebyshev(last.from, last.to) = 1 /\ Cardinality(Captured) >= 2

\* C7: a successful jump changes only the destination, the origin of a
\* distance-2 jump, and opponent cells within distance 1 of the destination
C7_SingleLayer ==
    Succeeded =>
        \A q \in Positions :
            CellAt(board, q) # CellAt(last.old, q) =>
                \/ q = last.to
                \/ q = last.from /\ Chebyshev(last.from, last.to) = 2
                \/ /\ Chebyshev(q, last.to) <= 1
                   /\ CellAt(last.old, q) = Player(Neg(Mover))

\* C7 witness: a successful jump that captured a cell while an opponent cell
\* at distance 2 of the destination stayed the opponent's
C7_Witness ==
    /\ Succeeded
    /\ Cardinality(Captured) >= 1
    /\ \E q \in Positions :
          /\ Chebyshev(q, last.to) = 2
          /\ q # last.from
          /\ CellAt(last.old, q) = Player(Neg(Mover))
          /\ CellAt(board, q) = Player(Neg(Mover))

\* C9: jump_distance is Some(d) exactly when both positions are in the grid
\* and their Chebyshev distance d is 1 or 2, and None otherwise
C9_JumpDistance ==
    calls > 0 =>
        last.dist = IF /\ InGrid(last.from) /\ InGrid(last.to)
                       /\ Chebyshev(last.from, last.to) \in {1, 2}
                    THEN Some(Chebyshev(last.from, last.to))
                    ELSE None

\* C9 witness: two positions of the grid at distance 3, for which
\* jump_distance is None
C9_Witness ==
    /\ calls > 0
    /\ InGrid(last.from) /\ InGrid(last.to)
    /\ Chebyshev(last.from, last.to) = 3
    /\ last.dist = None

\* C10: jump_distance(a, b) = jump_distance(b, a) for every two positions
C10_JumpDistanceSymmetric == calls > 0 => last.dist = last.rev

\* C10 witness: a value in both directions for two different positions, the
\* second one in a lower row and a higher column than the first
C10_Witness ==
    /\ calls > 0
    /\ last.from[1] > last.to[1] /\ last.from[2] < last.to[2]
    /\ last.dist = Some(2) /\ last.rev = Some(2)

(* ---------------------------------------------------------------------- *)
(* Properties of sessions (specification SpecSeq)                          *)
(* ---------------------------------------------------------------------- *)

\* C1: the score of each player is the number of cells holding that
\* player's piece, in every state a sequence of jump calls reaches
C1_ScoreInvariant ==
    /\ board.score.red = Pieces(board, "Red")
    /\ board.score.blue = Pieces(board, "Blue")

\* C1 witness: after two calls of a test, Red has cloned and captured the
\* Blue piece
C1_Witness ==
    /\ driver = "test" /\ calls = 2
    /\ board.score.blue = 0 /\ board.score.red = 3
    /\ init.score.blue = 1 /\ init.score.red = 1

\* C8: the positions holding Restricted are those of the grid as constructed
C8_RestrictedImmutable ==
    \A q \in Positions : (CellAt(board, q) = Restricted) <=> (CellAt(init, q) = Restricted)

\* C8 witness: a grid with a Restricted cell, owned by a BoardState, after a
\* successful jump that changed a cell next to it
C8_Witness ==
    /\ driver = "app" /\ calls >= 1 /\ last.ret
    /\ \E q \in Positions :
          /\ CellAt(board, q) = Restricted
          /\ \E n \in Positions : Chebyshev(n, q) = 1 /\ CellAt(board, n) # CellAt(init, n)

(* ---------------------------------------------------------------------- *)
(* Properties of single function calls (specification SpecFn)              *)
(* ---------------------------------------------------------------------- *)

\* the elements of a sequence
Range(seq) == {seq[k] : k \in 1..Len(seq)}

\* the linear indices of the cells of an h x w grid within distance 1 of
\* (row, column), the centre included
Window(h, w, row, column) ==
    {r * w + c : <<r, c>> \in
        {q \in (0..(h - 1)) \X (0..(w - 1)) :
            /\ q[1] - row <= 1 /\ row - q[1] <= 1
            /\ q[2] - column <= 1 /\ column - q[2] <= 1}}

\* the nine centres of tests::neighbors
NineCentres == {0, 2, 4} \X {0, 2, 4}

\* neighbors_mut was probed on the 5 x 5 grid at one of the nine centres
OnTestedCentre ==
    /\ probe.fn = "neighbors_mut"
    /\ probe.self.height = 5 /\ probe.self.width = 5
    /\ << probe.row, probe.column >> \in NineCentres

\* C11: on the 5 x 5 grid, at each of the nine centres, neighbors_mut yields
\* exactly the cells of the grid within distance 1 of the centre, each once
C11_TestedNeighbourhoods ==
    OnTestedCentre =>
        /\ Range(probe.out) = Window(5, 5, probe.row, probe.column)
        /\ Len(probe.out) = Cardinality(Window(5, 5, probe.row, probe.column))

\* C11 witness: the probe at the corner (4, 0), which yields four cells
C11_Witness ==
    /\ OnTestedCentre
    /\ probe.row = 4 /\ probe.column = 0
    /\ Len(probe.out) = 4

\* the number of cells of a vector in a given state
Count(cells, cell) == Cardinality({k \in 1..Len(cells) : cells[k] = cell})

\* C12: Board::new panics exactly when the vector does not hold
\* height * width cells; otherwise the grid holds the vector as given, row
\* after row, and its score is the number of cells of each player
C12_NewAssertsAndCounts ==
    probe.fn = "new" =>
        /\ probe.out.panicked <=> Len(probe.cells) # probe.height * probe.width
        /\ ~probe.out.panicked =>
              /\ probe.out.self.height = probe.height
              /\ probe.out.self.width = probe.width
              /\ probe.out.self.board = probe.cells
              /\ probe.out.self.score.red = Count(probe.cells, Player("Red"))
              /\ probe.out.self.score.blue = Count(probe.cells, Player("Blue"))

\* C12 witness: a 2 x 2 grid built from two red cells, a blue one and a
\* restricted one
C12_Witness ==
    /\ probe.fn = "new"
    /\ ~probe.out.panicked
    /\ probe.height = 2 /\ probe.width = 2
    /\ Count(probe.cells, Player("Red")) = 2
    /\ Count(probe.cells, Player("Blue")) = 1
    /\ Count(probe.cells, Restricted) = 1

\* C13: Board::free(height, width) yields height * width cells, every
\* position of the grid reads Free, the score is 0 to 0, and a jump on that
\* grid fails and leaves it as it was
C13_FreeBoard ==
    probe.fn = "free" =>
        /\ Len(probe.out.board) = probe.height * probe.width
        /\ \A row \in 0..(probe.height - 1), column \in 0..(probe.width - 1) :
              get(probe.out, row, column) = Some(Free)
        /\ probe.out.score = [red |-> 0, blue |-> 0]
        /\ ~probe.jumped.ret
        /\ probe.jumped.self = probe.out

\* C13 witness: on a free grid that is not square, a jump at distance 2
\* between two positions of the grid, refused
C13_Witness ==
    /\ probe.fn = "free"
    /\ probe.height # probe.width
    /\ probe.from[1] < probe.height /\ probe.from[2] < probe.width
    /\ probe.to[1] < probe.height /\ probe.to[2] < probe.width
    /\ Chebyshev(probe.from, probe.to) = 2
    /\ ~probe.jumped.ret

\* C14: contains(row, column) holds iff row < height and column < width; get
\* returns the cell at the linear index row * width + column when it holds
\* and None otherwise
C14_ContainsAndGet ==
    probe.fn = "get" =>
        /\ probe.contains <=>
              (probe.row < probe.self.height /\ probe.column < probe.self.width)
        /\ probe.out =
              IF probe.row < probe.self.height /\ probe.column < probe.self.width
              THEN << probe.cells[probe.row * probe.self.width + probe.column + 1] >>
              ELSE << >>

\* C14 witness: a column index equal to the width, on a row that is not the
\* last one, reads nothing
C14_Witness ==
    /\ probe.fn = "get"
    /\ probe.column = probe.self.width
    /\ probe.row + 1 < probe.self.height
    /\ probe.out = << >>

\* C15: is_opponent_of holds iff both cells are held by players and the two
\* players differ; it gives the same answer with the two cells exchanged
C15_OpponentRelation ==
    probe.fn = "is_opponent_of" =>
        /\ probe.out <=>
              \E p \in {"Blue", "Red"}, q \in {"Blue", "Red"} :
                 /\ p # q
                 /\ probe.self = << "Player", p >>
                 /\ probe.other = << "Player", q >>
        /\ probe.out = probe.rev

\* C15 witness: a red cell against a blue one
C15_Witness ==
    /\ probe.fn = "is_opponent_of"
    /\ probe.self = << "Player", "Red" >>
    /\ probe.other = << "Player", "Blue" >>
    /\ probe.out

\* C16: the negation of a player is the other player, negating twice gives
\* the player back, and pass_to_next_player called twice restores the
\* controller it started from
C16_NegInvolution ==
    probe.fn = "neg" =>
        /\ probe.player = "Blue" => probe.out = "Red"
        /\ probe.player = "Red" => probe.out = "Blue"
        /\ probe.out # probe.player
        /\ probe.twice = probe.player
        /\ probe.passed.current_player = probe.out
        /\ probe.passed_twice = BoardStateNew(probe.player)

\* C16 witness: Red negated is Blue, and negated again is Red
C16_Witness ==
    /\ probe.fn = "neg"
    /\ probe.player = "Red"
    /\ probe.out = "Blue"
    /\ probe.twice = "Red"

\* C25: on any grid and for every centre of the grid, the centres of row 1
\* and of column 1 included, neighbors_mut(row, column, 1) yields exactly
\* the cells of the grid within distance 1 of the centre, each once
C25_EveryNeighbourhood ==
    (/\ probe.fn = "neighbors_mut"
     /\ probe.row < probe.self.height /\ probe.column < probe.self.width) =>
        LET expected == Window(probe.self.height, probe.self.width,
                               probe.row, probe.column)
        IN /\ Range(probe.out) = expected
           /\ Len(probe.out) = Cardinality(expected)

\* C26: for a centre outside the grid, by its row, by its column or by both,
\* neighbors_mut(row, column, 1) yields no cell and blob(row, column) returns
\* false and leaves the cells and the score as they were
C26_OutOfBoundsCentre ==
    (/\ probe.fn = "blob"
     /\ (probe.row >= probe.self.height \/ probe.column >= probe.self.width)) =>
        /\ probe.neighbors = << >>
        /\ ~probe.out.ret
        /\ ~probe.out.panicked
        /\ probe.out.self = probe.self

\* C26 witness: on a grid holding pieces, a centre of the first row whose
\* column is the width
C26_Witness ==
    /\ probe.fn = "blob"
    /\ probe.self.score.red > 0
    /\ probe.row = 0 /\ probe.column = probe.self.width
    /\ ~probe.out.ret

(* ---------------------------------------------------------------------- *)
(* Properties of the methods of BoardState (specification SpecCtl)         *)
(* ---------------------------------------------------------------------- *)

\* the cell under the cursor when the last method was called
PrevCell == CellAt(prev.board, prev.state.selected)

\* the last method left the grid alone and did not call Board::jump
NoJumpAttempted == board = prev.board /\ calls = prev.calls

C18_SelectDestination ==
    (prev.method = "select" /\ prev.state.from # << >> /\ prev.state.to = << >>) =>
        /\ PrevCell = << "Free" >> =>
              state = [prev.state EXCEPT !.to = << prev.state.selected >>]
        /\ PrevCell # << "Free" >> => state = prev.state
        /\ NoJumpAttempted

\* C18 witness: with an origin pending, select() on the Restricted cell
\* leaves the controller as it was
C18_Witness ==
    /\ prev.method = "select"
    /\ prev.state.from # << >> /\ prev.state.to = << >>
    /\ PrevCell = << "Restricted" >>
    /\ state = prev.state

\* C19: select() with an origin and a destination pending calls
\* Board::jump(origin, destination) once, whatever the cell under the
\* cursor, and clears both selections whether the jump returned true or
\* false; the cursor and the current player stay as they were
C19_SelectJumps ==
    (prev.method = "select" /\ prev.state.from # << >> /\ prev.state.to # << >>) =>
        /\ calls = prev.calls + 1
        /\ last.from = prev.state.from[1]
        /\ last.to = prev.state.to[1]
        /\ last.old = prev.board
        /\ ~last.ret => board = prev.board
        /\ state = [prev.state EXCEPT !.from = << >>, !.to = << >>]

\* C19 witness: a jump at distance 3, refused, after which both selections
\* are cleared
C19_Witness ==
    /\ prev.method = "select"
    /\ prev.state.from # << >> /\ prev.state.to # << >>
    /\ Chebyshev(prev.state.from[1], prev.state.to[1]) = 3
    /\ ~last.ret
    /\ state.from = << >> /\ state.to = << >>

\* C20: reset() clears the destination alone when one is pending, else the
\* origin when one is pending, else nothing; it leaves the grid, the score,
\* the cursor and the current player as they were; two calls of reset()
\* leave no selection pending
C20_Reset ==
    /\ prev.method = "reset" =>
          /\ prev.state.to # << >> => state = [prev.state EXCEPT !.to = << >>]
          /\ (prev.state.to = << >> /\ prev.state.from # << >>) =>
                state = [prev.state EXCEPT !.from = << >>]
          /\ (prev.state.to = << >> /\ prev.state.from = << >>) => state = prev.state
          /\ NoJumpAttempted
    /\ reset(reset(state)).from = << >>
    /\ reset(reset(state)).to = << >>

\* C20 witness: reset() called with both selections pending, which keeps
\* the origin
C20_Witness ==
    /\ prev.method = "reset"
    /\ prev.state.from # << >> /\ prev.state.to # << >>
    /\ state.from = prev.state.from
    /\ state.to = << >>


\* the position one cell from p in the direction of a cursor method
Towards(p, method) ==
    CASE method = "left" -> << p[1], p[2] - 1 >>
      [] method = "right" -> << p[1], p[2] + 1 >>
      [] method = "up" -> << p[1] - 1, p[2] >>
      [] method = "down" -> << p[1] + 1, p[2] >>

\* C21: left, right, up and down move the cursor by one cell in their
\* direction when that cell is in the grid and leave it where it is when it
\* is not; they change neither the selections, the current player, the grid
\* nor the score
C21_CursorMoves ==
    prev.method \in {"left", "right", "up", "down"} =>
        LET target == Towards(prev.state.selected, prev.method)
        IN /\ InGrid(target) => state = [prev.state EXCEPT !.selected = target]
           /\ ~InGrid(target) => state = prev.state
           /\ NoJumpAttempted

\* C21 witness: left called in the first column with an origin pending
C21_Witness ==
    /\ prev.method = "left"
    /\ prev.state.selected[2] = 0
    /\ prev.state.from # << >>
    /\ state = prev.state

\* C22: from no selection, select() on a piece of the current player, cursor
\* moves, select() on a Free cell and select() again take the controller to
\* origin selected, to origin and destination selected and back to no
\* selection, Board::jump(origin, destination) being called once, by the
\* third select()
C22_SelectionCycle ==
    /\ prev.cycle.phase = 1 =>
          /\ state.from = << prev.cycle.origin >> /\ state.to = << >>
          /\ calls = prev.cycle.since
    /\ prev.cycle.phase = 2 =>
          /\ state.from = << prev.cycle.origin >>
          /\ state.to = << prev.cycle.destination >>
          /\ calls = prev.cycle.since
    /\ prev.cycle.phase = 3 =>
          /\ state.from = << >> /\ state.to = << >>
          /\ calls = prev.cycle.since + 1
          /\ last.from = prev.cycle.origin
          /\ last.to = prev.cycle.destination

\* C22 witness: the third select() of the sequence, whose jump was accepted
C22_Witness ==
    /\ prev.cycle.phase = 3
    /\ prev.method = "select"
    /\ last.ret
    /\ prev.cycle.origin # prev.cycle.destination

C27_DestinationNeedsOrigin == state.to # << >> => state.from # << >>

\* C27 witness: both selections pending while the turn is passed
C27_Witness ==
    /\ prev.method = "pass_to_next_player"
    /\ state.from # << >> /\ state.to # << >>

\* C29: a pending origin is a position of the grid whose cell holds a piece,
\* a pending destination is a position of the grid whose cell is Free, and
\* the two differ
C29_SelectionsStayValid ==
    /\ state.from # << >> =>
          /\ InGrid(state.from[1])
          /\ CellAt(board, state.from[1]) \in {<< "Player", "Red" >>, << "Player", "Blue" >>}
    /\ state.to # << >> =>
          /\ InGrid(state.to[1])
          /\ CellAt(board, state.to[1]) = << "Free" >>
          /\ state.from # state.to

\* C29 witness: both selections pending on a grid an earlier jump changed
C29_Witness ==
    /\ state.from # << >> /\ state.to # << >>
    /\ board # init

\* C30: the jump called by select() with both selections pending returns
\* false iff the distance from the origin to the destination is 3 or more;
\* both are positions of the grid, distinct, the origin holding a piece and
\* the destination Free
C30_FailsOnDistanceOnly ==
    (prev.method = "select" /\ prev.state.from # << >> /\ prev.state.to # << >>) =>
        LET from == prev.state.from[1]
            to == prev.state.to[1]
        IN /\ ~last.ret <=> Chebyshev(from, to) >= 3
           /\ Chebyshev(from, to) >= 1
           /\ InGrid(from) /\ InGrid(to)
           /\ CellAt(prev.board, from)[1] = "Player"
           /\ CellAt(prev.board, to) = << "Free" >>

\* C30 witness: a jump at distance 2 called by select(), accepted
C30_Witness ==
    /\ prev.method = "select"
    /\ prev.state.from # << >> /\ prev.state.to # << >>
    /\ Chebyshev(prev.state.from[1], prev.state.to[1]) = 2
    /\ last.ret

(* ---------------------------------------------------------------------- *)
(* Properties of the commands given to a BoardState (specification         *)
(* SpecSeq)                                                                *)
(* ---------------------------------------------------------------------- *)

\* C23: a Select command runs select() and then passes to the other player,
\* also when select() changed nothing or its jump was refused; Reset, Left,
\* Right, Up, Down, Back and Exit keep the current player
C23_SelectPassesTurn ==
    /\ prev.method = "Select" =>
          /\ state.current_player # prev.state.current_player
          /\ [state EXCEPT !.current_player = prev.state.current_player]
                = select(prev.state, prev.board).state
    /\ prev.method \in {"Reset", "Left", "Right", "Up", "Down", "Back", "Exit"} =>
          state.current_player = prev.state.current_player

\* C23 witness: a Select command whose jump was refused, the turn passed
C23_Witness ==
    /\ prev.method = "Select"
    /\ calls = prev.calls + 1
    /\ ~last.ret
    /\ state.current_player # prev.state.current_player

\* C28: over any sequence of jump calls and of commands, the height and
\* the width stay those the grid was built with and the vector holds
\* height * width cells
C28_GridShape ==
    /\ board.height = init.height
    /\ board.width = init.width
    /\ Len(board.board) = board.height * board.width

\* C28 witness: a grid on which two pieces were added by jumps
C28_Witness ==
    /\ calls >= 2
    /\ Pieces(board, "Red") + Pieces(board, "Blue")
          >= Pieces(init, "Red") + Pieces(init, "Blue") + 2

\* C31: whenever a Select command makes a jump that is accepted, the piece
\* moved is one of the player who was the current player just before that
\* Select
C31_MoverIsCurrentPlayer ==
    (prev.method = "Select" /\ calls = prev.calls + 1 /\ last.ret) =>
        CellAt(prev.board, last.from) = << "Player", prev.state.current_player >>

(* ---------------------------------------------------------------------- *)
(* Counts and panics over one call of Board::jump (specification Spec)     *)
(* ---------------------------------------------------------------------- *)

\* the number of Free cells of grid b
FreeCells(b) == Cardinality({q \in Positions : CellAt(b, q) = << "Free" >>})

\* score.red + score.blue of grid b
ScoreSum(b) == b.score.red + b.score.blue

\* C32: across a jump call the number of Free cells does not increase and
\* score.red + score.blue does not decrease; an accepted jump at distance 2
\* keeps the sum, an accepted clone at distance 1 adds exactly 1 to it, a
\* refused jump keeps it; the sum and the number of Free cells together
\* stay constant, so the clones accepted are at most the Free cells
C32_PieceCountMonotone ==
    calls > 0 =>
        /\ FreeCells(board) <= FreeCells(last.old)
        /\ ScoreSum(board) >= ScoreSum(last.old)
        /\ (last.ret /\ Chebyshev(last.from, last.to) = 2) =>
              ScoreSum(board) = ScoreSum(last.old)
        /\ (last.ret /\ Chebyshev(last.from, last.to) = 1) =>
              ScoreSum(board) = ScoreSum(last.old) + 1
        /\ ~last.ret => ScoreSum(board) = ScoreSum(last.old)
        /\ ScoreSum(board) + FreeCells(board)
              = ScoreSum(last.old) + FreeCells(last.old)

\* C32 witness: an accepted clone that also captured, the sum one higher
C32_Witness ==
    /\ Succeeded
    /\ Chebyshev(last.from, last.to) = 1
    /\ Captured # {}
    /\ ScoreSum(board) = ScoreSum(last.old) + 1

\* C33: on a grid built by Board::new or Board::free, a jump with any two
\* positions, in the grid or not, does not panic: the cells it captures are
\* at most the opponent's score, and no score goes below zero
C33_NoPanic ==
    /\ ~panicked
    /\ board.score.red >= 0 /\ board.score.blue >= 0
    /\ Succeeded => Cardinality(Captured) <= ScoreGet(last.old.score, Neg(Mover))

\* C33 witness: an accepted jump that captured every piece the opponent had
C33_Witness ==
    /\ Succeeded
    /\ Captured # {}
    /\ ScoreGet(last.old.score, Neg(Mover)) = Cardinality(Captured)
    /\ ScoreGet(board.score, Neg(Mover)) = 0

(* ---------------------------------------------------------------------- *)
(* Properties of the application (specification SpecApp)                   *)
(* ---------------------------------------------------------------------- *)

\* a command was handled, in the given variant
Handled(app) == prev.method # "none" /\ prev.app = app

\* C34: once the variant is Exit, handle_command leaves it Exit for every
\* command, has_exited() stays true, and the loop of run handles no command
\* after it
C34_ExitAbsorbing ==
    /\ Handled("Exit") => (application_state = "Exit" /\ has_exited(application_state))
    /\ driver = "run" => ~Handled("Exit")

\* C34 witness: Select handled in the variant Exit, which stays Exit
C34_Witness ==
    /\ Handled("Exit")
    /\ prev.method = "Select"
    /\ application_state = "Exit"

\* what the variant becomes when Back is handled once more, and twice more
AfterBack == app_handle_command(application_state, state, board, "Back")

AfterBackTwice ==
    app_handle_command(AfterBack.app, AfterBack.h.state, AfterBack.h.r.self, "Back")

\* C35: Exit moves every variant to Exit; Back moves Board to Logo and Logo
\* to Exit; from every state one Exit command or two Back commands reach
\* Exit
C35_ScreenTransitions ==
    /\ (prev.method = "Exit") => application_state = "Exit"
    /\ (prev.method = "Back" /\ prev.app = "Board") => application_state = "Logo"
    /\ (prev.method = "Back" /\ prev.app = "Logo") => application_state = "Exit"
    /\ app_handle_command(application_state, state, board, "Exit").app = "Exit"
    /\ AfterBackTwice.app = "Exit"

\* C35 witness: Back leaving a session in which a jump was made
C35_Witness ==
    /\ prev.method = "Back"
    /\ prev.app = "Board"
    /\ prev.calls > 0
    /\ application_state = "Logo"

\* C36: in the variant Logo, the commands other than Back, Exit and Select
\* change nothing, and Select opens a session on the 8 x 8 grid holding Red
\* at (0, 0), Blue at (7, 7) and Free cells elsewhere, with the score 1 to 1,
\* Blue to move, the cursor at (0, 0) and nothing pending, whatever the
\* sessions before it
C36_NewSession ==
    Handled("Logo") =>
        /\ prev.method \in {"Reset", "Left", "Right", "Up", "Down"} =>
              /\ application_state = "Logo"
              /\ state = prev.state /\ board = prev.board
        /\ prev.method = "Select" =>
              /\ application_state = "Board"
              /\ board.height = 8 /\ board.width = 8
              /\ board.board =
                    [i \in 1..64 |-> IF i = 1 THEN << "Player", "Red" >>
                                     ELSE IF i = 64 THEN << "Player", "Blue" >>
                                     ELSE << "Free" >>]
              /\ board.score = [red |-> 1, blue |-> 1]
              /\ state = [current_player |-> "Blue", selected |-> << 0, 0 >>,
                          from |-> << >>, to |-> << >>]

\* C36 witness: Select in the variant Logo after a session in which a jump
\* was made
C36_Witness ==
    /\ Handled("Logo")
    /\ prev.method = "Select"
    /\ calls > 0
    /\ application_state = "Board"

\* C37: in the variant Board, Reset, Select, Left, Right, Up and Down are
\* given to the BoardState and the variant stays Board; Back and Exit given
\* to BoardState::handle_command would change nothing of the BoardState
C37_CommandRouting ==
    /\ (Handled("Board") /\ prev.method \in {"Reset", "Select", "Left", "Right", "Up", "Down"}) =>
          /\ application_state = "Board"
          /\ state = handle_command(prev.state, prev.board, prev.method).state
          /\ board = handle_command(prev.state, prev.board, prev.method).r.self
    /\ application_state = "Board" =>
          \A command \in {"Back", "Exit"} :
             /\ handle_command(state, board, command).state = state
             /\ handle_command(state, board, command).r.self = board
             /\ ~handle_command(state, board, command).called

\* C37 witness: Reset in the variant Board cancelling a pending origin
C37_Witness ==
    /\ Handled("Board")
    /\ prev.method = "Reset"
    /\ prev.state.from # << >>
    /\ state.from = << >>
    /\ application_state = "Board"

====
